---- MODULE Spec2Model ----
(***************************************************************************)
(* LedgerFlow AI service: run_analysis (src/app/analysis_logic.py) and the *)
(* FastAPI handlers that call it (src/main.py).                            *)
(*                                                                         *)
(* Numbers: Python floats are modelled by integers and by exact fractions  *)
(* [num, den]; floating-point rounding, inf and nan are outside the model. *)
(* Strings are TLA+ strings; float(), pandas.to_numeric and                *)
(* pandas.to_datetime are modelled on a finite vocabulary of texts, each   *)
(* row parsed on its own.                                                  *)
(***************************************************************************)
EXTENDS Integers, Sequences, FiniteSets, TLC

\* Longest transaction list drawn as input.
MaxTx == 2

(***************************************************************************)
(* Python / JSON values                                                    *)
(***************************************************************************)
Float(x)     == [t |-> "float", n |-> x, s |-> "", l |-> <<>>]
\* a float with a fractional part: n + 1/2
FracFloat(x) == [t |-> "fracfloat", n |-> x, s |-> "", l |-> <<>>]
IntV(x)      == [t |-> "int", n |-> x, s |-> "", l |-> <<>>]
Str(x)       == [t |-> "str", n |-> 0, s |-> x, l |-> <<>>]
ListV(x)     == [t |-> "list", n |-> 0, s |-> "", l |-> x]
Null         == [t |-> "null", n |-> 0, s |-> "", l |-> <<>>]
\* a key that the JSON object does not have
Absent       == [t |-> "absent", n |-> 0, s |-> "", l |-> <<>>]
\* NaN / NaT left by errors='coerce'
Missing      == [t |-> "missing", n |-> 0, s |-> "", l |-> <<>>]

\* Decimal texts and the numbers they denote.
NumericText == [x \in {"1000", "100000", "75", "7"} |->
                  CASE x = "1000" -> 1000
                    [] x = "100000" -> 100000
                    [] x = "75" -> 75
                    [] x = "7" -> 7]

\* Calendar texts and their day numbers.
Calendar == [x \in {"2024-01-01", "2024-01-03", "2024-01-04"} |->
               CASE x = "2024-01-01" -> 1
                 [] x = "2024-01-03" -> 3
                 [] x = "2024-01-04" -> 4]

\* datetime.now(): the day the request is served.
Now == Calendar["2024-01-03"]

\* float(x): [ok, n]; a text that is no number raises ValueError.
PyFloat(x) ==
  IF x.t = "float" THEN [ok |-> TRUE, n |-> x.n]
  ELSE IF x.t = "str" /\ x.s \in DOMAIN NumericText
       THEN [ok |-> TRUE, n |-> NumericText[x.s]]
       ELSE [ok |-> FALSE, n |-> 0]

\* try: float(current_balance) except ValueError: 0.0
CoerceBalance(raw) ==
  IF PyFloat(raw).ok THEN PyFloat(raw).n ELSE 0

\* pd.to_numeric(x, errors='coerce') of one cell
ToNumeric(x) ==
  IF PyFloat(x).ok THEN Float(PyFloat(x).n) ELSE Missing

\* pd.to_datetime(x, errors='coerce') of one cell
ToDatetime(x) ==
  IF x \in DOMAIN Calendar THEN IntV(Calendar[x]) ELSE Missing

\* One row after the two coercions.
CoerceRow(tx) ==
  [date |-> ToDatetime(tx.date), category |-> tx.category,
   amount |-> ToNumeric(tx.amount), type |-> tx.type]

\* dropna(subset=['date', 'amount'])
Kept(row) == row.date.t # "missing" /\ row.amount.t # "missing"

RECURSIVE DropNa(_)
DropNa(rows) ==
  IF rows = <<>> THEN <<>>
  ELSE LET rest == DropNa(Tail(rows))
       IN  IF Kept(Head(rows)) THEN <<Head(rows)>> \o rest ELSE rest

\* The cleaned frame of a non-empty transaction list.
CleanFrame(txs) == DropNa([i \in 1..Len(txs) |-> CoerceRow(txs[i])])

Abs(x) == IF x < 0 THEN -x ELSE x

\* df[df['type'] == 'debit']['amount'].abs().sum()
RECURSIVE SumDebits(_)
SumDebits(rows) ==
  IF rows = <<>> THEN 0
  ELSE (IF Head(rows).type = "debit" THEN Abs(Head(rows).amount.n) ELSE 0)
       + SumDebits(Tail(rows))

\* df['date'].min() of a non-empty frame
RECURSIVE MinDate(_)
MinDate(rows) ==
  IF Len(rows) = 1 THEN rows[1].date.n
  ELSE LET m == MinDate(Tail(rows))
       IN  IF rows[1].date.n < m THEN rows[1].date.n ELSE m

DaysElapsed(rows) == IF rows = <<>> THEN 1 ELSE (Now - MinDate(rows)) + 1

\* avg_daily_debit as an exact fraction num/den, den > 0
AvgDailyDebit(rows) ==
  IF rows = <<>> THEN [num |-> 0, den |-> 1]
  ELSE IF DaysElapsed(rows) > 0
       THEN [num |-> SumDebits(rows), den |-> DaysElapsed(rows)]
       ELSE [num |-> 0, den |-> 1]

\* int(a / b) for b > 0: Python's int() rounds toward zero.
PyInt(a, b) == IF a >= 0 THEN a \div b ELSE -((-a) \div b)

NoForecast == 999

\* The forecast were the quotient rounded down (math.floor) instead.
DaysToZeroFloor(bal, avg) ==
  IF avg.num > 0 THEN (bal * avg.den) \div avg.num ELSE NoForecast

\* int(current_balance_float / avg_daily_debit) if avg_daily_debit > 0 else 999
DaysToZeroLocal(bal, avg) ==
  IF avg.num > 0 THEN PyInt(bal * avg.den, avg.num) ELSE NoForecast

(***************************************************************************)
(* Local statistics (run_analysis, lines 43-71)                            *)
(***************************************************************************)
\* What lines 43-71 leave behind for a transaction list and a raw balance.
\* pd.DataFrame([]) has no columns, so df['amount'] raises KeyError.
LocalStats(txs, rawBalance) ==
  IF txs = <<>>
  THEN [exception |-> "KeyError", balance |-> CoerceBalance(rawBalance),
        df |-> <<>>, debits |-> 0, days_elapsed |-> 0,
        avg |-> [num |-> 0, den |-> 1], days_to_zero |-> 0]
  ELSE LET rows == CleanFrame(txs)
           bal  == CoerceBalance(rawBalance)
       IN  [exception |-> "none", balance |-> bal, df |-> rows,
            debits |-> SumDebits(rows), days_elapsed |-> DaysElapsed(rows),
            avg |-> AvgDailyDebit(rows),
            days_to_zero |-> DaysToZeroLocal(bal, AvgDailyDebit(rows))]

(***************************************************************************)
(* Fallback policy (run_analysis, lines 117-130)                           *)
(***************************************************************************)
Min(a, b) == IF a < b THEN a ELSE b
Max(a, b) == IF a > b THEN a ELSE b

\* The score were the min/max clamp left out.
ScoreUnclamped(avg) == 50 + PyInt(avg.num * 5, avg.den * 100000)

\* min(max(50 + int(avg_daily_debit / 100000 * 5), 10), 100)
ScoreFallback(avg) ==
  Min(Max(50 + PyInt(avg.num * 5, avg.den * 100000), 10), 100)

ShiftsFallback ==
  << [category |-> "Transportation", change_percent |-> 50, trend |-> "increase"],
     [category |-> "Food", change_percent |-> -20, trend |-> "decrease"] >>

AdviceFallback ==
  "Saat ini sistem AI tidak aktif. Lanjutkan dengan analisis dasar: Fokus pada pengeluaran transportasi bulan ini."

FallbackResult(avg, daysToZero) ==
  [financial_score |-> ScoreFallback(avg),
   days_to_zero |-> daysToZero,
   monthly_spending_shifts |-> ShiftsFallback,
   advice |-> AdviceFallback]

NoResult ==
  [financial_score |-> 0, days_to_zero |-> 0,
   monthly_spending_shifts |-> <<>>, advice |-> ""]

(***************************************************************************)
(* External-model response: json.loads and FinancialAnalysisResult of it  *)
(***************************************************************************)
\* A JSON object over the four schema keys and one key the schema lacks.
Obj(score, days, shifts, advice, extra) ==
  [financial_score |-> score, days_to_zero |-> days,
   monthly_spending_shifts |-> shifts, advice |-> advice, confidence |-> extra]

EmptyObj == Obj(Absent, Absent, Absent, Absent, Absent)

\* response.text: a JSON object, a JSON array, text that is no JSON, or None
JsonObject(o) == [kind |-> "object", obj |-> o]
JsonArray     == [kind |-> "array", obj |-> EmptyObj]
NotJson       == [kind |-> "notjson", obj |-> EmptyObj]
NoText        == [kind |-> "none", obj |-> EmptyObj]
NoResponse    == [kind |-> "unset", obj |-> EmptyObj]

ModelShifts ==
  ListV(<< [category |-> "Food", change_percent |-> 12, trend |-> "increase"] >>)

\* The responses the external model may give to a prompt that names `local`
\* as the precomputed days-to-zero figure.
ResponseTexts(local) ==
  { JsonObject(Obj(IntV(70), IntV(local), ModelShifts, Str("Kurangi jajan."), Absent)),
    JsonObject(Obj(IntV(70), IntV(7), ModelShifts, Str("Kurangi jajan."), Absent)),
    JsonObject(Obj(IntV(150), IntV(7), ListV(<<>>), Str(""), Absent)),
    JsonObject(Obj(IntV(70), IntV(7), ModelShifts, Str("Kurangi jajan."), Float(1))),
    JsonObject(Obj(Str("75"), IntV(7), ModelShifts, Str("Kurangi jajan."), Absent)),
    JsonObject(Obj(Float(70), IntV(7), ModelShifts, Str("Kurangi jajan."), Absent)),
    JsonObject(Obj(Str("high"), IntV(7), ModelShifts, Str("Kurangi jajan."), Absent)),
    JsonObject(Obj(FracFloat(70), IntV(7), ModelShifts, Str("Kurangi jajan."), Absent)),
    JsonObject(Obj(IntV(70), IntV(7), Str("none"), Str("Kurangi jajan."), Absent)),
    JsonObject(Obj(IntV(70), IntV(7), ModelShifts, IntV(5), Absent)),
    JsonObject(Obj(IntV(70), IntV(7), ModelShifts, Absent, Absent)),
    JsonArray, NotJson, NoText }

\* An int field were the model declared strict.
IntFieldStrict(v) == v.t = "int"

\* pydantic's default (lax) validation of one field
IntField(v) ==
  \/ v.t \in {"int", "float"}
  \/ v.t = "str" /\ v.s \in DOMAIN NumericText
IntOf(v) == IF v.t = "str" THEN NumericText[v.s] ELSE v.n
StrField(v)  == v.t = "str"
ListField(v) == v.t = "list"

\* The schema's keys; any other key is ignored (pydantic's default extra='ignore').
ExtraAllowed(o) == TRUE

\* Building FinancialAnalysisResult from the keys of o raises no ValidationError.
SchemaValid(o) ==
  /\ IntField(o.financial_score)
  /\ IntField(o.days_to_zero)
  /\ ListField(o.monthly_spending_shifts)
  /\ StrField(o.advice)
  /\ ExtraAllowed(o)

\* model_dump() of the FinancialAnalysisResult built from o
ModelDump(o) ==
  [financial_score |-> IntOf(o.financial_score),
   days_to_zero |-> IntOf(o.days_to_zero),
   monthly_spending_shifts |-> o.monthly_spending_shifts.l,
   advice |-> o.advice.s]

\* What lines 108-110 raise on a response text ("none": nothing).
ResponseError(text) ==
  CASE text.kind = "none"    -> "TypeError"
    [] text.kind = "notjson" -> "JSONDecodeError"
    [] text.kind = "array"   -> "TypeError"
    [] OTHER -> IF SchemaValid(text.obj) THEN "none" ELSE "ValidationError"

\* The handler were it written `except json.JSONDecodeError`.
ExceptOnlyJsonErrors(exc) == exc = "JSONDecodeError"

\* except Exception: every error of the call and of the verification
ExceptClause(exc) ==
  exc \in {"APIError", "TypeError", "JSONDecodeError", "ValidationError"}

(***************************************************************************)
(* run_analysis as a state machine                                         *)
(***************************************************************************)
VARIABLES
  transactions,          \* argument: the raw transaction records
  current_balance,       \* argument: the raw balance
  client,                \* module-level client: TRUE, or FALSE for None
  pc,                    \* "start", "stats", "calling", "returned", "raised"
  current_balance_float, df, debits, days_elapsed,
  avg_daily_debit, days_to_zero_local,
  calls,                 \* generate_content calls issued by this invocation
  response,              \* response.text of the call
  failure,               \* why the external step gave no validated result
  result,                \* the returned mapping
  exception,             \* the exception that left run_analysis
  api_key,               \* os.getenv("GEMINI_API_KEY") is set
  requests,              \* the HTTP requests of the service, by number
  loop                   \* the request whose coroutine holds the event loop, or 0

analysisVars == <<transactions, current_balance, client, pc,
                  current_balance_float, df, debits, days_elapsed,
                  avg_daily_debit, days_to_zero_local, calls, response, failure,
                  result, exception>>

serverVars == <<api_key, requests, loop>>

vars == <<analysisVars, serverVars>>

Dates    == {"2024-01-01", "2024-01-03", "2024-01-04", "not-a-date"}
Amounts  == {Float(100), Str("100000"), Float(-2000000), Str("abc")}
Balances == {Float(-150), Str("1000"), Str("abc")}

TxRows == [date : Dates, category : {"Food"}, amount : Amounts,
           type : {"debit", "credit"}]

TxLists == UNION {[1..n -> TxRows] : n \in 0..MaxTx}

Init ==
  /\ transactions \in TxLists
  /\ current_balance \in Balances
  /\ client \in BOOLEAN
  /\ pc = "start"
  /\ current_balance_float = 0
  /\ df = <<>>
  /\ debits = 0
  /\ days_elapsed = 0
  /\ avg_daily_debit = [num |-> 0, den |-> 1]
  /\ days_to_zero_local = 0
  /\ calls = 0
  /\ response = NoResponse
  /\ failure = "none"
  /\ result = NoResult
  /\ exception = "none"
  /\ api_key = TRUE
  /\ requests = <<>>
  /\ loop = 0

\* lines 43-74: balance coercion, cleaning, local statistics
Preprocess ==
  /\ pc = "start"
  /\ LET st == LocalStats(transactions, current_balance)
     IN  /\ current_balance_float' = st.balance
         /\ df' = st.df
         /\ debits' = st.debits
         /\ days_elapsed' = st.days_elapsed
         /\ avg_daily_debit' = st.avg
         /\ days_to_zero_local' = st.days_to_zero
         /\ exception' = st.exception
         /\ pc' = IF st.exception = "none" THEN "stats" ELSE "raised"
  /\ UNCHANGED <<transactions, current_balance, client, calls, response,
                 failure, result, serverVars>>

\* line 77 with client None, then lines 117-130
ClientAbsent ==
  /\ pc = "stats"
  /\ ~client
  /\ failure' = "client_absent"
  /\ result' = FallbackResult(avg_daily_debit, days_to_zero_local)
  /\ pc' = "returned"
  /\ UNCHANGED <<transactions, current_balance, client, current_balance_float,
                 df, debits, days_elapsed, avg_daily_debit, days_to_zero_local,
                 calls, response, exception, serverVars>>

\* lines 77-105: the prompt is built and the call is issued
GenerateContent ==
  /\ pc = "stats"
  /\ client
  /\ calls' = calls + 1
  /\ pc' = "calling"
  /\ UNCHANGED <<transactions, current_balance, client, current_balance_float,
                 df, debits, days_elapsed, avg_daily_debit, days_to_zero_local,
                 response, failure, result, exception, serverVars>>

\* An error `exc` inside the try block: lines 112-115, then lines 117-130.
Handle(exc) ==
  IF ExceptClause(exc)
  THEN /\ failure' = exc
       /\ result' = FallbackResult(avg_daily_debit, days_to_zero_local)
       /\ pc' = "returned"
       /\ exception' = exception
  ELSE /\ failure' = exc
       /\ result' = result
       /\ pc' = "raised"
       /\ exception' = exc

\* the call raises (network, quota, server error)
CallRaises ==
  /\ pc = "calling"
  /\ Handle("APIError")
  /\ UNCHANGED <<transactions, current_balance, client, current_balance_float,
                 df, debits, days_elapsed, avg_daily_debit, days_to_zero_local,
                 calls, response, serverVars>>

\* the call returns: lines 108-110, and on an error lines 112-130
CallReturns ==
  /\ pc = "calling"
  /\ \E text \in ResponseTexts(days_to_zero_local) :
       /\ response' = text
       /\ IF ResponseError(text) = "none"
          THEN /\ result' = ModelDump(text.obj)
               /\ pc' = "returned"
               /\ UNCHANGED <<failure, exception>>
          ELSE Handle(ResponseError(text))
  /\ UNCHANGED <<transactions, current_balance, client, current_balance_float,
                 df, debits, days_elapsed, avg_daily_debit, days_to_zero_local,
                 calls, serverVars>>

Next ==
  \/ Preprocess
  \/ ClientAbsent
  \/ GenerateContent
  \/ CallRaises
  \/ CallReturns

Spec == Init /\ [][Next]_vars

(***************************************************************************)
(* The service (src/main.py): requests on one asyncio event loop.          *)
(* calculate_score is a coroutine without any await: from its first line   *)
(* to its return it holds the loop's thread, the synchronous               *)
(* generate_content round-trip of run_analysis included.  health_check is  *)
(* a plain function: the loop hands it to a worker thread and sends its    *)
(* answer when the thread is done.                                         *)
(***************************************************************************)
\* Requests the service receives.
NReq == 3

Reqs == 1..NReq

NewRequest == [route |-> "none", empty |-> FALSE, st |-> "new", status |-> 0]

ServerInit ==
  /\ transactions = <<>>
  /\ current_balance = Float(0)
  /\ client \in BOOLEAN
  /\ pc = "start"
  /\ current_balance_float = 0
  /\ df = <<>>
  /\ debits = 0
  /\ days_elapsed = 0
  /\ avg_daily_debit = [num |-> 0, den |-> 1]
  /\ days_to_zero_local = 0
  /\ calls = 0
  /\ response = NoResponse
  /\ failure = "none"
  /\ result = NoResult
  /\ exception = "none"
  /\ api_key \in BOOLEAN
  /\ requests = [r \in Reqs |-> NewRequest]
  /\ loop = 0

\* A client sends a request; `empty`: its transaction list is empty.
Arrive(r) ==
  /\ requests[r].st = "new"
  /\ \E route \in {"/calculate-score", "/health"}, e \in BOOLEAN :
       requests' = [requests EXCEPT ![r] =
                      [route |-> route, empty |-> e, st |-> "queued", status |-> 0]]
  /\ UNCHANGED <<analysisVars, api_key, loop>>

\* The loop runs calculate_score: 503 without the key, 500 when run_analysis
\* raises, 200 with the fallback when there is no client; with a client the
\* coroutine sits in generate_content and keeps the loop.
CalculateScore(r) ==
  /\ requests[r].st = "queued"
  /\ requests[r].route = "/calculate-score"
  /\ loop = 0
  /\ IF ~api_key
     THEN /\ requests' = [requests EXCEPT ![r].st = "done", ![r].status = 503]
          /\ loop' = 0
     ELSE IF requests[r].empty
     THEN /\ requests' = [requests EXCEPT ![r].st = "done", ![r].status = 500]
          /\ loop' = 0
     ELSE IF ~client
     THEN /\ requests' = [requests EXCEPT ![r].st = "done", ![r].status = 200]
          /\ loop' = 0
     ELSE /\ requests' = [requests EXCEPT ![r].st = "in_call"]
          /\ loop' = r
  /\ UNCHANGED <<analysisVars, api_key>>

\* generate_content returns or raises: run_analysis returns either way.
CallEnds(r) ==
  /\ requests[r].st = "in_call"
  /\ requests' = [requests EXCEPT ![r].st = "done", ![r].status = 200]
  /\ loop' = 0
  /\ UNCHANGED <<analysisVars, api_key>>

\* generate_content never returns (no timeout is set on the call).
CallHangs(r) ==
  /\ requests[r].st = "in_call"
  /\ requests' = [requests EXCEPT ![r].st = "hung"]
  /\ UNCHANGED <<analysisVars, api_key, loop>>

\* The loop hands health_check to a worker thread.
HealthDispatch(r) ==
  /\ requests[r].st = "queued"
  /\ requests[r].route = "/health"
  /\ loop = 0
  /\ requests' = [requests EXCEPT ![r].st = "in_thread"]
  /\ UNCHANGED <<analysisVars, api_key, loop>>

\* The worker thread runs health_check.
HealthCheck(r) ==
  /\ requests[r].st = "in_thread"
  /\ requests' = [requests EXCEPT ![r].st = "thread_done"]
  /\ UNCHANGED <<analysisVars, api_key, loop>>

\* The loop sends the answer of health_check.
HealthRespond(r) ==
  /\ requests[r].st = "thread_done"
  /\ loop = 0
  /\ requests' = [requests EXCEPT ![r].st = "done", ![r].status = 200]
  /\ UNCHANGED <<analysisVars, api_key, loop>>

\* A step of the service on behalf of request r.
Serve(r) ==
  \/ CalculateScore(r)
  \/ CallEnds(r)
  \/ HealthDispatch(r)
  \/ HealthCheck(r)
  \/ HealthRespond(r)

ServerNext ==
  \E r \in Reqs :
    \/ Arrive(r)
    \/ CalculateScore(r)
    \/ CallEnds(r)
    \/ CallHangs(r)
    \/ HealthDispatch(r)
    \/ HealthCheck(r)
    \/ HealthRespond(r)

ServerSpec == ServerInit /\ [][ServerNext]_vars

(***************************************************************************)
(* Properties                                                              *)
(***************************************************************************)
Finished == pc \in {"returned", "raised"}

StatsComputed == pc \in {"stats", "calling", "returned"}

\* The fallback mapping, spelled out from the local statistics in the state.
IsFallback(r) ==
  /\ r.financial_score = Min(Max(50 + ((avg_daily_debit.num * 5)
                                  \div (avg_daily_debit.den * 100000)), 10), 100)
  /\ r.days_to_zero = days_to_zero_local
  /\ r.monthly_spending_shifts = ShiftsFallback
  /\ r.advice = AdviceFallback

\* C1: with the client unavailable, every returned result carries the local
\* days-to-zero, a score within 10..100, the fixed advice and the two fixed
\* placeholder shift records.
C1_FallbackWhenClientUnavailable ==
  (~client /\ pc = "returned") =>
     /\ result.days_to_zero = days_to_zero_local
     /\ result.financial_score \in 10..100
     /\ result.advice = AdviceFallback
     /\ result.monthly_spending_shifts = ShiftsFallback
     /\ Len(result.monthly_spending_shifts) = 2

\* C1 witness: a fallback return without client whose score was clamped to 100
\* and whose forecast is a real quotient.
C1_Witness ==
  /\ ~client
  /\ pc = "returned"
  /\ result.financial_score = 100
  /\ result.days_to_zero # NoForecast
  /\ avg_daily_debit.num > 0

\* C2: every failure of the external step (no client, the call raises, the
\* text is no JSON object, the object fails validation) ends in the return of
\* the fallback result, and no exception of the external step leaves
\* run_analysis.
C2_ExternalFailuresFallBack ==
  /\ exception \in {"none", "KeyError"}
  /\ (response.kind \in {"none", "notjson", "array"}) => failure # "none"
  /\ (~client /\ pc \notin {"start", "stats", "raised"}) => failure = "client_absent"
  /\ failure # "none" =>
       /\ pc = "returned"
       /\ exception = "none"
       /\ IsFallback(result)

\* C2 witness: the call returned an object that failed validation and the
\* fallback was returned.
C2_Witness ==
  /\ failure = "ValidationError"
  /\ response.kind = "object"
  /\ pc = "returned"
  /\ calls = 1

\* C3 as stated: days_to_zero_local is 999 when avg_daily_debit is 0 and
\* floor(current_balance / avg_daily_debit) otherwise, also for a negative
\* balance (-150 / 100 gives -2).
C3_DaysToZeroIsFloor ==
  StatsComputed =>
    days_to_zero_local =
      IF avg_daily_debit.num = 0 THEN 999
      ELSE (current_balance_float * avg_daily_debit.den) \div avg_daily_debit.num

\* C3 amended: days_to_zero_local is 999 when avg_daily_debit is 0, and
\* otherwise current_balance / avg_daily_debit rounded toward zero: the floor
\* for a balance >= 0, the ceiling for a negative balance (-150 / 100 gives -1).
C3_DaysToZeroTruncates ==
  StatsComputed =>
    LET q == days_to_zero_local
        a == current_balance_float * avg_daily_debit.den
        b == avg_daily_debit.num
    IN  /\ b = 0 => q = 999
        /\ (b > 0 /\ a >= 0) => (q * b <= a /\ a < (q + 1) * b)
        /\ (b > 0 /\ a < 0)  => ((q - 1) * b < a /\ a <= q * b)
        /\ b >= 0
        /\ (current_balance_float = -150 /\ avg_daily_debit = [num |-> 100, den |-> 1])
             => q = -1

\* C3 witness: balance -150 against an average daily debit of 100.
C3_Witness ==
  /\ StatsComputed
  /\ current_balance_float = -150
  /\ avg_daily_debit = [num |-> 100, den |-> 1]
  /\ days_to_zero_local = -1

\* C4: for an empty transaction list with the client unavailable run_analysis
\* does not raise and returns days_to_zero 999, financial_score 50 and the
\* fixed shifts and advice.
C4_EmptyListReturnsFallback ==
  (transactions = <<>> /\ ~client /\ pc # "start") =>
     /\ pc = "returned"
     /\ exception = "none"
     /\ result.days_to_zero = 999
     /\ result.financial_score = 50
     /\ result.monthly_spending_shifts = ShiftsFallback
     /\ result.advice = AdviceFallback

\* A raw row whose date or amount cannot be parsed.
Unparseable(tx) ==
  \/ tx.date \notin DOMAIN Calendar
  \/ ~(tx.amount.t = "float" \/ (tx.amount.t = "str" /\ tx.amount.s \in DOMAIN NumericText))

RemoveAt(seq, i) == [j \in 1..(Len(seq) - 1) |-> IF j < i THEN seq[j] ELSE seq[j + 1]]

\* C5: removing one row with an unparseable date or amount (also when it is
\* the only row) leaves avg_daily_debit and days_to_zero_local unchanged, and
\* neither the list nor the shortened list causes an error.
C5_UnparseableRowsExcluded ==
  pc # "start" =>
    \A i \in 1..Len(transactions) :
      Unparseable(transactions[i]) =>
        LET shorter == LocalStats(RemoveAt(transactions, i), current_balance)
        IN  /\ exception = "none"
            /\ shorter.exception = "none"
            /\ shorter.avg = avg_daily_debit
            /\ shorter.days_to_zero = days_to_zero_local

\* The result run_analysis gives for the same transactions, client and call
\* outcome with balance 0.
ResultWithBalanceZero ==
  LET st == LocalStats(transactions, Float(0))
  IN  IF failure # "none" THEN FallbackResult(st.avg, st.days_to_zero)
      ELSE ModelDump(response.obj)

\* C6: a balance that cannot be parsed as a number never raises, and for every
\* transaction list the result equals the result for balance 0.
C6_UnparseableBalanceIsZero ==
  (~PyFloat(current_balance).ok /\ Finished) =>
     /\ pc = "returned"
     /\ exception = "none"
     /\ result = ResultWithBalanceZero

\* A request that has arrived and has not been answered.
Pending(q) == requests[q].st \in {"queued", "in_thread", "thread_done"}

\* C7: an external call that never returns blocks only the request that issued
\* it: every other pending request can still take its next step.
C7_HungCallBlocksOnlyItsRequest ==
  \A r \in DOMAIN requests, q \in DOMAIN requests :
    (requests[r].st = "hung" /\ q # r /\ Pending(q)) => ENABLED Serve(q)

\* C8: days_to_zero of the returned result equals days_to_zero_local on both
\* return paths, the validated external result and the fallback.
C8_DaysToZeroSameOnBothPaths ==
  pc = "returned" => result.days_to_zero = days_to_zero_local

\* A field of the response object that is not exactly of the schema's type.
Deviates(o) ==
  \/ o.confidence.t # "absent"
  \/ o.financial_score.t # "int"
  \/ o.days_to_zero.t # "int"
  \/ o.monthly_spending_shifts.t # "list"
  \/ o.advice.t # "str"

\* C9 as stated: an object with an unknown extra field, a missing field or a
\* mistyped field (a numeric string for financial_score) fails validation and
\* the fallback result is returned.
C9_StrictValidation ==
  (pc = "returned" /\ response.kind = "object" /\ Deviates(response.obj)) =>
     /\ failure = "ValidationError"
     /\ IsFallback(result)

\* A value pydantic's default mode turns into an int.
CoercesToInt(v) ==
  v.t = "int" \/ v.t = "float" \/ (v.t = "str" /\ v.s \in {"1000", "100000", "75", "7"})

\* C9 amended: a missing field, or a value that cannot be coerced to the
\* field's type, fails validation and the fallback result is returned; an
\* unknown extra field is ignored and a numeric string or integral float for
\* an integer field is coerced, and the model's values are returned.
C9_LaxValidation ==
  (pc = "returned" /\ response.kind = "object") =>
    LET o == response.obj
        fits == /\ CoercesToInt(o.financial_score)
                /\ CoercesToInt(o.days_to_zero)
                /\ o.monthly_spending_shifts.t = "list"
                /\ o.advice.t = "str"
    IN  /\ ~fits => (failure = "ValidationError" /\ IsFallback(result))
        /\ fits => /\ failure = "none"
                   /\ result.advice = o.advice.s
                   /\ result.monthly_spending_shifts = o.monthly_spending_shifts.l
                   /\ (o.financial_score.t \in {"int", "float"}
                         => result.financial_score = o.financial_score.n)
                   /\ (o.financial_score = Str("75") => result.financial_score = 75)
                   /\ (o.days_to_zero.t = "int" => result.days_to_zero = o.days_to_zero.n)

\* C9 witness: the numeric string "75" for financial_score was accepted and
\* returned as 75.
C9_Witness ==
  /\ pc = "returned"
  /\ response.kind = "object"
  /\ response.obj.financial_score = Str("75")
  /\ failure = "none"
  /\ result.financial_score = 75

\* C10: an invocation issues at most one call: exactly one when the client is
\* present, none when it is absent, and a failed call is followed only by the
\* fallback return.
C10_ExactlyOneCall ==
  /\ calls <= 1
  /\ Finished => calls = (IF client THEN 1 ELSE 0)
  /\ (failure # "none" /\ client) => (pc = "returned" /\ calls = 1)

(***************************************************************************)
(* What remains of C5, C6 and C10 once the transaction list is not empty   *)
(* (the empty list is the input of C4).                                    *)
(***************************************************************************)
\* Removing an unparseable row from a list of two or more rows changes neither
\* statistic and raises nothing.
UnparseableRowsExcludedBeyondOneRow ==
  Len(transactions) >= 2 => C5_UnparseableRowsExcluded

\* With at least one transaction an unparseable balance gives the result of
\* balance 0.
UnparseableBalanceIsZeroOnNonEmpty ==
  transactions # <<>> => C6_UnparseableBalanceIsZero

\* With at least one transaction exactly one call is issued with a client and
\* none without.
ExactlyOneCallOnNonEmpty ==
  transactions # <<>> => C10_ExactlyOneCall

\* A fallback return always carries the local days-to-zero.
FallbackKeepsLocalDaysToZero ==
  (pc = "returned" /\ failure # "none") => result.days_to_zero = days_to_zero_local

====
